---- MODULE Spec2Model ----
(***************************************************************************)
(* W3C Trace Context codec of lib/transaction/tracecontext.js:             *)
(* TraceContext.traceparent / tracestate (encode) and                      *)
(* TraceContext.acceptTraceContextPayload (decode), with the string        *)
(* primitives of the JavaScript runtime they are written in.               *)
(*                                                                         *)
(* A JavaScript string is a sequence of one-character strings.  A value    *)
(* that may be a string, a number, a boolean, null or undefined is a       *)
(* tagged record (Str, Num, Bool, Null, Undefined, NaN, Infinity).         *)
(* A number is the decimal n / 10^k, kept normalised.                      *)
(***************************************************************************)
EXTENDS Integers, Sequences, FiniteSets, TLC

\* transaction, config: the unit of work and the agent configuration read.
\* tracingVendors, trustedParentId, traceStateRaw: the slots of the instance
\*   (this.tracingVendors, this.trustedParentId, this._traceStateRaw).
\* supportability: the counters behind agent.recordSupportability.
\* call, ret: the last call made on the instance and what it returned.
\* parsedState: the tracestate parse the last call made, if any.
\* outbound: the headers the encoder produced last.
\* calls: the number of calls made.
VARIABLES transaction, config, tracingVendors, trustedParentId, traceStateRaw,
          supportability, call, ret, parsedState, outbound, calls

vars == <<transaction, config, tracingVendors, trustedParentId, traceStateRaw,
          supportability, call, ret, parsedState, outbound, calls>>

----------------------------------------------------------------------------
(* JavaScript values *)

Null == [t |-> "null"]
Undefined == [t |-> "undefined"]
NaN == [t |-> "nan"]
Infinity == [t |-> "inf"]
Str(s) == [t |-> "str", s |-> s]
Bool(b) == [t |-> "bool", b |-> b]

\* The function f as an explicit array (or object) of its values.
Array(f) == f @@ <<>>

RECURSIVE Pow10(_)
Pow10(e) == IF e = 0 THEN 1 ELSE 10 * Pow10(e - 1)

\* The decimal n / 10^k with trailing fractional zeros removed.
RECURSIVE Dec(_, _)
Dec(n, k) == IF k > 0 /\ n % 10 = 0 THEN Dec(n \div 10, k - 1)
             ELSE [t |-> "num", n |-> n, k |-> k]

Num(n) == Dec(n, 0)

IsNullish(v) == v.t \in {"null", "undefined"}

\* ToBoolean
Truthy(v) == CASE v.t = "str" -> v.s # <<>>
               [] v.t = "num" -> v.n # 0
               [] v.t = "bool" -> v.b
               [] v.t = "inf" -> TRUE
               [] OTHER -> FALSE

\* The global isNaN applied to a value that is already a number or nullish:
\* ToNumber(undefined) is NaN, ToNumber(null) is 0.
isNaN(v) == v.t \in {"nan", "undefined"}

\* A property read: a property that was never assigned reads as undefined.
Get(o, p) == IF p \in DOMAIN o THEN o[p] ELSE Undefined

----------------------------------------------------------------------------
(* String primitives *)

\* The character c repeated n times.
Rep(c, n) == Array([i \in 1..n |-> c])

\* String.prototype.padStart(n, c)
padStart(s, n, c) == Rep(c, n - Len(s)) \o s

\* Index of the first occurrence of character c in s, 0 when there is none.
Least(set) == CHOOSE i \in set : \A j \in set : i <= j

\* Index of the first occurrence of c in s at or after i, 0 when there is none.
IndexFrom(s, c, i) ==
  LET hits == {j \in i..Len(s) : s[j] = c}
  IN IF hits = {} THEN 0 ELSE Least(hits)

\* The k-th smallest member of a set of numbers.
Nth(set, k) == CHOOSE i \in set : Cardinality({j \in set : j <= i}) = k

\* The pieces of s between consecutive positions of `at`.
SplitAt(s, at) ==
  Array([k \in 1..(Cardinality(at) + 1) |->
           SubSeq(s, IF k = 1 THEN 1 ELSE Nth(at, k - 1) + 1,
                     IF k = Cardinality(at) + 1 THEN Len(s) ELSE Nth(at, k) - 1)])

\* String.prototype.split(sep) for a one-character separator: the pieces
\* between consecutive separators, one more than there are separators.
split(s, sep) == SplitAt(s, {i \in 1..Len(s) : s[i] = sep})

\* Array.prototype.join(sep)
RECURSIVE join(_, _)
join(parts, sep) ==
  IF parts = <<>> THEN <<>>
  ELSE IF Len(parts) = 1 THEN parts[1]
  ELSE parts[1] \o <<sep>> \o join(Tail(parts), sep)

\* Variant: the first element is removed, wherever the index points.
splice_Head(arr, i) == Tail(arr)
\* Array.prototype.splice(i, 1) on a 0-based index: the array left behind.
splice(arr, i) == SubSeq(arr, 1, i) \o SubSeq(arr, i + 2, Len(arr))

\* Array.prototype.findIndex(v => v === x): 0-based, -1 when there is none.
findIndex(arr, x) == IndexFrom(arr, x, 1) - 1

HexDigits == <<"0", "1", "2", "3", "4", "5", "6", "7", "8", "9",
               "a", "b", "c", "d", "e", "f">>
UpperHex == <<"0", "1", "2", "3", "4", "5", "6", "7", "8", "9",
              "A", "B", "C", "D", "E", "F">>
LowerHexChars == {HexDigits[i] : i \in 1..16}
\* The white space and line terminators that parseInt and parseFloat skip
\* (StrWhiteSpaceChar). A string is a sequence of characters, each written as
\* a one-character string; a character that a string literal cannot hold, or
\* holds only as the bytes of its encoding, is written as its code point.
AsciiWhiteSpace == {" ", "\t", "\n", "\r", "\f", ""}
UnicodeWhiteSpace ==
  {"U+000B", "U+00A0", "U+1680", "U+2000", "U+2001", "U+2002", "U+2003", "U+2004",
   "U+2005", "U+2006", "U+2007", "U+2008", "U+2009", "U+200A", "U+2028", "U+2029",
   "U+202F", "U+205F", "U+3000", "U+FEFF"}
\* The same characters where the literal holds them.
LiteralWhiteSpace == {" ", " ", "﻿"}
WhiteSpace == AsciiWhiteSpace \cup UnicodeWhiteSpace \cup LiteralWhiteSpace

\* Number.prototype.toString() of a non-negative integer.
RECURSIVE IntToStr(_)
IntToStr(n) == IF n < 10 THEN <<HexDigits[n + 1]>>
               ELSE IntToStr(n \div 10) \o <<HexDigits[(n % 10) + 1]>>

\* Number::toString of a / 10^k below 1e-6: its digits, then the exponent.
ExponentialToString(digits, k) ==
  <<Head(digits)>> \o (IF Len(digits) > 1 THEN <<".">> \o Tail(digits) ELSE <<>>)
  \o <<"e", "-">> \o IntToStr(k - Len(digits) + 1)

\* Number::toString of the non-negative decimal a / 10^k.
DecimalToString(a, k) ==
  IF k = 0 THEN IntToStr(a)
  ELSE IF k <= 6 \/ a >= Pow10(k - 6)
  THEN IntToStr(a \div Pow10(k)) \o <<".">> \o padStart(IntToStr(a % Pow10(k)), k, "0")
  ELSE ExponentialToString(IntToStr(a), k)

NumberToString(x) ==
  IF x.n < 0 THEN <<"-">> \o DecimalToString(0 - x.n, x.k) ELSE DecimalToString(x.n, x.k)

\* ToString, as a template literal and parseInt apply it to a value.
Chars(v) == CASE v.t = "str" -> v.s
              [] v.t = "null" -> <<"n", "u", "l", "l">>
              [] v.t = "undefined" -> <<"u", "n", "d", "e", "f", "i", "n", "e", "d">>
              [] v.t = "num" -> NumberToString(v)
              [] v.t = "bool" -> IF v.b THEN <<"t", "r", "u", "e">>
                                 ELSE <<"f", "a", "l", "s", "e">>
              [] v.t = "nan" -> <<"N", "a", "N">>
              [] v.t = "inf" -> <<"I", "n", "f", "i", "n", "i", "t", "y">>

\* The value of the digit at index lo of HexDigits (or up of UpperHex) in the
\* given radix, -1 when it is none.
HexValue(lo, up, radix) ==
  IF lo > 0 THEN (IF lo <= radix THEN lo - 1 ELSE -1)
  ELSE IF up > 0 /\ up <= radix THEN up - 1 ELSE -1

\* The value of a digit character in the given radix, -1 when it is none.
DigitVal(c, radix) ==
  HexValue(IndexFrom(HexDigits, c, 1), IndexFrom(UpperHex, c, 1), radix)

\* s without its leading white space.
TrimStart(s) ==
  LET ink == {i \in 1..Len(s) : s[i] \notin WhiteSpace}
  IN IF ink = {} THEN <<>> ELSE SubSeq(s, Least(ink), Len(s))

\* Length of the longest prefix of s made of digits of the radix.
DigitRun(s, radix) ==
  LET stop == {i \in 1..Len(s) : DigitVal(s[i], radix) < 0}
  IN IF stop = {} THEN Len(s) ELSE Least(stop) - 1

\* The number written by the digits s in the given radix.
RECURSIVE DigitsValue(_, _)
DigitsValue(s, radix) ==
  IF s = <<>> THEN 0
  ELSE DigitsValue(SubSeq(s, 1, Len(s) - 1), radix) * radix + DigitVal(s[Len(s)], radix)

StartsWith(s, p) == Len(s) >= Len(p) /\ SubSeq(s, 1, Len(p)) = p

\* The sign a numeric literal starts with, and the literal without it.
IsSigned(s) == s # <<>> /\ Head(s) \in {"+", "-"}
Negative(s) == IsSigned(s) /\ Head(s) = "-"
Unsign(s) == IF IsSigned(s) THEN Tail(s) ELSE s
WithSign(neg, m) == IF neg THEN 0 - m ELSE m

\* The value of the longest prefix of s made of digits of the radix.
LeadingInt(s, radix) == DigitsValue(SubSeq(s, 1, DigitRun(s, radix)), radix)

\* parseInt(v, radix), read in stages: white space, sign, radix prefix,
\* digits. radix 0 stands for a radix that is not given.
ParseIntDigits(neg, digits, r) ==
  IF DigitRun(digits, r) = 0 THEN NaN ELSE Num(WithSign(neg, LeadingInt(digits, r)))

ParseIntUnsigned(neg, s, hex, radix) ==
  ParseIntDigits(neg, IF hex THEN SubSeq(s, 3, Len(s)) ELSE s,
                 IF hex THEN 16 ELSE IF radix = 0 THEN 10 ELSE radix)

ParseIntTrimmed(s, radix) ==
  ParseIntUnsigned(Negative(s), Unsign(s),
                   /\ radix \in {0, 16}
                   /\ \/ StartsWith(Unsign(s), <<"0", "x">>)
                      \/ StartsWith(Unsign(s), <<"0", "X">>),
                   radix)

parseInt(v, radix) == ParseIntTrimmed(TrimStart(Chars(v)), radix)

\* parseFloat(v): the longest prefix that is a decimal literal, read in
\* stages: white space, sign, integer digits, fraction digits, exponent.
ParseFloatValue(neg, mant, nf, ev) ==
  IF mant = 0 THEN Num(0)
  ELSE IF ev - nf >= 0 THEN Num(WithSign(neg, mant) * Pow10(ev - nf))
  ELSE Dec(WithSign(neg, mant), nf - ev)

ParseFloatExponent(s) ==
  IF s # <<>> /\ Head(s) \in {"e", "E"}
  THEN WithSign(Negative(Tail(s)), LeadingInt(Unsign(Tail(s)), 10))
  ELSE 0

ParseFloatMantissa(neg, int, frac, nf) ==
  IF Len(int) + nf = 0 THEN NaN
  ELSE ParseFloatValue(neg, DigitsValue(int \o SubSeq(frac, 1, nf), 10), nf,
                       ParseFloatExponent(SubSeq(frac, nf + 1, Len(frac))))

ParseFloatFraction(neg, int, rest, dot) ==
  ParseFloatMantissa(neg, int, IF dot THEN Tail(rest) ELSE rest,
                     IF dot THEN DigitRun(Tail(rest), 10) ELSE 0)

ParseFloatInteger(neg, s, ni) ==
  ParseFloatFraction(neg, SubSeq(s, 1, ni), SubSeq(s, ni + 1, Len(s)),
                     ni < Len(s) /\ s[ni + 1] = ".")

ParseFloatUnsigned(neg, s) ==
  IF StartsWith(s, <<"I", "n", "f", "i", "n", "i", "t", "y">>) THEN Infinity
  ELSE ParseFloatInteger(neg, s, DigitRun(s, 10))

ParseFloatTrimmed(s) == ParseFloatUnsigned(Negative(s), Unsign(s))

parseFloat(v) == ParseFloatTrimmed(TrimStart(Chars(v)))

\* A Number is the double nearest to its decimal t / m. The steps below find
\* on which side of the decimal the double lies, in arithmetic modulo 2m.

\* (r * 2^e) % m, by factors of at most 2^6.
RECURSIVE TimesPow2(_, _, _)
TimesPow2(r, e, m) ==
  IF e >= 6 THEN TimesPow2((r * 64) % m, e - 6, m) ELSE (r * (2 ^ e)) % m

\* The p with 2^p <= t / m < 2^(p + 1), for t >= m.
RECURSIVE Log2Above(_, _)
Log2Above(t, m) == IF t \div 2 < m THEN 0 ELSE 1 + Log2Above(t \div 2, m)

\* The q with 2^(-q) <= t / m < 2^(1 - q), for 0 < t < m.
RECURSIVE Log2Below(_, _)
Log2Below(t, m) == IF t >= m THEN 0 ELSE 1 + Log2Below(2 * t, m)

\* The e for which the 53-bit significand of the double is t * 2^e / m
\* rounded to an integer.
SignificandShift(t, m) == IF t >= m THEN 52 - Log2Above(t, m) ELSE 52 + Log2Below(t, m)

\* TRUE when the double is not below t / m, from R = (t * 2^e) % 2m: the
\* significand is exact, or was rounded up (to even on a tie).
RoundedUp(R, m) ==
  \/ R % m = 0
  \/ 2 * (R % m) > m
  \/ 2 * (R % m) = m /\ R >= m

DoubleNotBelow(t, m) == RoundedUp(TimesPow2(t % (2 * m), SignificandShift(t, m), 2 * m), m)

\* The integer n for which n / 10^digits is nearest to the double of
\* a / 10^k, the larger n when two are equally near. A decimal half way
\* between two candidates goes with the side on which its double lies.
FixedQuotient(a, unit, digits) ==
  IF 2 * (a % unit) < unit THEN a \div unit
  ELSE IF 2 * (a % unit) > unit THEN (a \div unit) + 1
  ELSE IF DoubleNotBelow(a \div (unit \div 10), Pow10(digits + 1)) THEN (a \div unit) + 1
  ELSE a \div unit

FixedScaled(a, k, digits) ==
  IF k <= digits THEN a * Pow10(digits - k) ELSE FixedQuotient(a, Pow10(k - digits), digits)

FixedToString(scaled, digits) ==
  IntToStr(scaled \div Pow10(digits))
  \o (IF digits > 0 THEN <<".">> \o padStart(IntToStr(scaled % Pow10(digits)), digits, "0")
      ELSE <<>>)

\* Number.prototype.toFixed(digits)
toFixed(x, digits) ==
  (IF x.n < 0 THEN <<"-">> ELSE <<>>)
  \o FixedToString(FixedScaled(IF x.n < 0 THEN 0 - x.n ELSE x.n, x.k, digits), digits)

----------------------------------------------------------------------------
(* Constants of tracecontext.js *)

PARENT_TYPES == <<<<"A", "p", "p">>, <<"B", "r", "o", "w", "s", "e", "r">>,
                  <<"M", "o", "b", "i", "l", "e">>>>
W3C_TRACEPARENT_VERSION == <<"0", "0">>
NR_TRACESTATE_VERSION == 0
TRACEID_LENGTH == 32
PARENTID_LENGTH == 16
FLAGS_sampled == 1

AllIn(s, set) == \A i \in 1..Len(s) : s[i] \in set

\* String.prototype.match against each pattern: TRUE when there is a match.
VERSION_VALID_RGX(s) == Len(s) = 2 /\ AllIn(s, LowerHexChars) /\ s # <<"f", "f">>
TRACEID_VALID_RGX(s) ==
  Len(s) = TRACEID_LENGTH /\ AllIn(s, LowerHexChars) /\ s # Rep("0", TRACEID_LENGTH)
PARENTID_VALID_RGX(s) ==
  Len(s) = PARENTID_LENGTH /\ AllIn(s, LowerHexChars) /\ s # Rep("0", PARENTID_LENGTH)
FLAGS_VALID_RGX(s) == Len(s) = 2 /\ AllIn(s, LowerHexChars)

\* The names of the supportability metrics the codec records.
CREATE_SUCCESS == "TraceContext/Create/Success"
ACCEPT_SUCCESS == "TraceContext/Accept/Success"
PARSE_EXCEPTION == "TraceContext/TraceParent/Parse/Exception"
INVALID_NR_ENTRY == "TraceContext/TraceState/InvalidNrEntry"
MetricNames == {CREATE_SUCCESS, ACCEPT_SUCCESS, PARSE_EXCEPTION, INVALID_NR_ENTRY}

\* A call that ends by raising instead of returning.
TypeError == [thrown |-> "TypeError"]
Threw(r) == "thrown" \in DOMAIN r

----------------------------------------------------------------------------
(* Decode: traceparent *)

\* An array element read by destructuring: undefined past the end.
At(parts, i) == IF i <= Len(parts) THEN Str(parts[i]) ELSE Undefined

TraceParentInfo(valid, version, traceId, parentId, flags) ==
  [entryValid |-> valid, version |-> version, traceId |-> traceId,
   parentId |-> parentId, flags |-> flags]

InvalidTraceParentInfo == TraceParentInfo(FALSE, Null, Null, Null, Null)

\* The && chain of the four matches: each match is attempted only when the
\* ones before it succeeded, and a match on undefined raises a TypeError.
MatchedParent(parts, version, traceId, parentId, flags) ==
  IF parts[1] = W3C_TRACEPARENT_VERSION /\ Len(parts) # 4
  THEN InvalidTraceParentInfo
  ELSE IF ~VERSION_VALID_RGX(version.s) THEN InvalidTraceParentInfo
  ELSE IF traceId = Undefined THEN TypeError
  ELSE IF ~TRACEID_VALID_RGX(traceId.s) THEN InvalidTraceParentInfo
  ELSE IF parentId = Undefined THEN TypeError
  ELSE IF ~PARENTID_VALID_RGX(parentId.s) THEN InvalidTraceParentInfo
  ELSE IF flags = Undefined THEN TypeError
  ELSE IF ~FLAGS_VALID_RGX(flags.s) THEN InvalidTraceParentInfo
  ELSE TraceParentInfo(TRUE, version, traceId, parentId, flags)

\* const [version, traceId, parentId, flags] = traceParentInfo
ParentParts(parts) ==
  MatchedParent(parts, At(parts, 1), At(parts, 2), At(parts, 3), At(parts, 4))

_validateAndParseTraceParentHeader(traceparent) ==
  IF ~Truthy(traceparent) THEN InvalidTraceParentInfo
  ELSE ParentParts(split(traceparent.s, "-"))

----------------------------------------------------------------------------
(* Decode: the New Relic entry of tracestate *)

Set(o, p, v) == (p :> v) @@ o
Delete(o, p) == Array([q \in (DOMAIN o) \ {p} |-> o[q]])

\* '' becomes null; a position past the end of the split reads as undefined.
Positional(splitValues, i) ==
  IF i > Len(splitValues) THEN Undefined
  ELSE IF splitValues[i] = <<>> THEN Null ELSE Str(splitValues[i])

_extractTraceStateIntrinsics(nrTracestate) ==
  LET splitValues == split(nrTracestate, "-")
  IN [t |-> "object",
      version |-> Positional(splitValues, 1),
      parentType |-> Positional(splitValues, 2),
      accountId |-> Positional(splitValues, 3),
      appId |-> Positional(splitValues, 4),
      spanId |-> Positional(splitValues, 5),
      transactionId |-> Positional(splitValues, 6),
      sampled |-> Positional(splitValues, 7),
      priority |-> Positional(splitValues, 8),
      timestamp |-> Positional(splitValues, 9)]

\* Object.keys(intrinsicConversions)
ConversionKeys == {"version", "parentType", "sampled", "priority", "timestamp"}

intrinsicConversions(key, v) ==
  CASE key = "version" -> parseInt(v, 0)
    [] key = "parentType" -> parseInt(v, 0)
    [] key = "sampled" -> IF IsNullish(v) THEN v ELSE parseInt(v, 10)
    [] key = "priority" -> IF IsNullish(v) THEN v ELSE parseFloat(v)
    [] key = "timestamp" -> parseInt(v, 0)

\* intrinsics[key] = conversion(intrinsics[key]), for each key of the table.
Converted(intrinsics) ==
  Array([key \in DOMAIN intrinsics |->
           IF key \in ConversionKeys THEN intrinsicConversions(key, intrinsics[key])
           ELSE intrinsics[key]])

_parseIntrinsics(nrTracestateValue) ==
  Converted(_extractTraceStateIntrinsics(nrTracestateValue))

InvalidationKeys ==
  <<"version", "parentType", "accountId", "appId", "sampled", "priority", "timestamp">>

\* Variant: the table without its accountId row.
intrinsicInvalidations_NoAccountId(key, v) ==
  CASE key = "version" -> isNaN(v)
    [] key = "parentType" -> IsNullish(v)
    [] key = "accountId" -> FALSE
    [] key = "appId" -> IsNullish(v)
    [] key = "sampled" -> IF IsNullish(v) THEN FALSE ELSE isNaN(v)
    [] key = "priority" -> IF IsNullish(v) THEN FALSE ELSE isNaN(v)
    [] key = "timestamp" -> isNaN(v)
\* TRUE when the field is invalid.
intrinsicInvalidations(key, v) ==
  CASE key = "version" -> isNaN(v)
    [] key = "parentType" -> IsNullish(v)
    [] key = "accountId" -> IsNullish(v)
    [] key = "appId" -> IsNullish(v)
    [] key = "sampled" -> IF IsNullish(v) THEN FALSE ELSE isNaN(v)
    [] key = "priority" -> IF IsNullish(v) THEN FALSE ELSE isNaN(v)
    [] key = "timestamp" -> isNaN(v)

\* The string `${key} failed invalidation test`.
FailedInvalidationTest(key) == [t |-> "str", failed |-> key]

Greatest(set) == CHOOSE i \in set : \A j \in set : j <= i

\* The positions in the table of the fields found invalid.
FailedInvalidations(intrinsics) ==
  {i \in 1..Len(InvalidationKeys) :
     intrinsicInvalidations(InvalidationKeys[i], intrinsics[InvalidationKeys[i]])}

\* The loop over the table: entryValid is false when a field is found
\* invalid, and entryInvalidReason names the last field found invalid.
Invalidated(intrinsics, failed) ==
  IF failed = {} THEN Set(intrinsics, "entryValid", TRUE)
  ELSE Set(Set(intrinsics, "entryValid", FALSE),
           "entryInvalidReason", FailedInvalidationTest(InvalidationKeys[Greatest(failed)]))

Invalidate(intrinsics) == Invalidated(intrinsics, FailedInvalidations(intrinsics))

\* PARENT_TYPES[i]: undefined unless i is an index of the array.
ParentTypeLabel(i) ==
  IF i.t = "num" /\ i.k = 0 /\ i.n >= 0 /\ i.n < Len(PARENT_TYPES)
  THEN Str(PARENT_TYPES[i.n + 1]) ELSE Undefined

\* "Convert to types expected by Transaction": sampled becomes a boolean,
\* parentType its label, and an entry without a label is not valid.
TypedIntrinsics(intrinsics, label) ==
  Set(Set(Set(intrinsics, "sampled", Bool(Truthy(intrinsics.sampled))),
          "parentType", label),
      "entryValid", intrinsics.entryValid /\ Truthy(label))

CheckedIntrinsics(intrinsics) ==
  TypedIntrinsics(intrinsics, ParentTypeLabel(intrinsics.parentType))

_validateAndParseIntrinsics(nrTracestateValue) ==
  CheckedIntrinsics(Invalidate(_parseIntrinsics(nrTracestateValue)))

----------------------------------------------------------------------------
(* Decode: tracestate *)

\* Variant: a member with more than one '=' is taken to parse as well.
ListMemberParsed_AtLeastTwo(parts) == Len(parts) >= 2
\* A list member parsed correctly when it splits on '=' into two parts.
ListMemberParsed(parts) == Len(parts) = 2

\* The callback of listMembers.map: the key of the member, undefined (with
\* traceStateValid set to false) when the member did not parse.
VendorOf(lm) ==
  LET parts == split(lm, "=")
  IN IF ~ListMemberParsed(parts) THEN Undefined ELSE Str(parts[1])

\* `${trustedKey}@nr`
TrustedVendor == Str(Chars(config.trusted_account_key) \o <<"@", "n", "r">>)

TraceStateData(found, valid, reason, listValid, intrinsics, newTraceState, vendors) ==
  [entryFound |-> found, entryValid |-> valid, entryInvalidReason |-> reason,
   traceStateValid |-> listValid, intrinsics |-> intrinsics,
   newTraceState |-> newTraceState, vendors |-> vendors]

\* The result once the entry of the trusted vendor was found at nrVendorIndex
\* and validated: the entry is removed from both arrays.
NrEntryData(listMembers, vendors, nrVendorIndex, intrinsicsValidation) ==
  TraceStateData(TRUE,
                 Bool(intrinsicsValidation.entryValid),
                 IF intrinsicsValidation.entryValid THEN Undefined
                 ELSE Get(intrinsicsValidation, "invalidReason"),
                 Bool(TRUE),
                 IF intrinsicsValidation.entryValid
                 THEN Delete(intrinsicsValidation, "entryValid") ELSE Undefined,
                 Str(join(splice(listMembers, nrVendorIndex), ",")),
                 splice(vendors, nrVendorIndex))

VendorData(listMembers, vendors, nrVendorIndex) ==
  IF \E i \in 1..Len(vendors) : vendors[i] = Undefined
  THEN TraceStateData(FALSE, Undefined, Undefined, Bool(FALSE), Undefined,
                      Undefined, vendors)
  ELSE IF nrVendorIndex < 0
  THEN TraceStateData(FALSE, Undefined, Undefined, Bool(TRUE), Undefined,
                      Str(join(listMembers, ",")), vendors)
  ELSE NrEntryData(listMembers, vendors, nrVendorIndex,
                   _validateAndParseIntrinsics(
                     split(listMembers[nrVendorIndex + 1], "=")[2]))

MemberData(listMembers) ==
  VendorData(listMembers,
             Array([i \in 1..Len(listMembers) |-> VendorOf(listMembers[i])]),
             findIndex(Array([i \in 1..Len(listMembers) |-> VendorOf(listMembers[i])]),
                       TrustedVendor))

_validateAndParseTraceStateHeader(tracestate) == MemberData(split(tracestate, ","))

----------------------------------------------------------------------------
(* Decode: acceptTraceContextPayload *)

traceContextData ==
  [acceptedTraceparent |-> FALSE, acceptedTracestate |-> FALSE,
   acceptedNRTracestate |-> FALSE, traceId |-> Null, parentSpanId |-> Null,
   parentType |-> Null, accountId |-> Null, appId |-> Null,
   transactionId |-> Null, sampled |-> Null, priority |-> Null,
   transportDuration |-> Null]

\* What one call leaves behind: its return value (or the error it raised), the
\* three slots of the instance, the metrics it recorded, and the tracestate
\* parse it made (undefined when it made none).
Outcome(r, raw, vendors, parentId, recorded, tsd) ==
  [ret |-> r, traceStateRaw |-> raw, tracingVendors |-> vendors,
   trustedParentId |-> parentId, recorded |-> recorded, parsedState |-> tsd]

Return(r, recorded, tsd) ==
  Outcome(r, traceStateRaw, tracingVendors, trustedParentId, recorded, tsd)

NoTraceparent(traceparent) == ~Truthy(traceparent)

\* Variant: the pass-through is stored only with a valid vendor entry.
KeptTraceState_OnValidEntry(tsd) ==
  IF Truthy(tsd.entryValid) THEN tsd.newTraceState ELSE traceStateRaw
\* this._traceStateRaw = parsedState.newTraceState, once the list parsed.
KeptTraceState(tsd) == tsd.newTraceState

\* this.trustedParentId = parsedState.intrinsics.spanId, on a valid entry only.
KeptParentId(tsd) ==
  IF Truthy(tsd.entryValid) THEN tsd.intrinsics.spanId ELSE trustedParentId

\* Math.max(0, (Date.now() - timestamp) / 1000)
TransportDuration(now, timestamp) ==
  IF now - timestamp.n > 0 THEN Dec(now - timestamp.n, 3) ELSE Num(0)

\* The metrics recorded after the tracestate list parsed.
RecordedForEntry(tsd) ==
  IF Truthy(tsd.entryValid) THEN <<ACCEPT_SUCCESS>>
  ELSE IF tsd.entryFound THEN <<INVALID_NR_ENTRY>>
  ELSE <<>>

AcceptTraceState(data, tsd, now) ==
  Outcome(
    IF Truthy(tsd.entryValid)
    THEN [data EXCEPT
            !.acceptedTracestate = TRUE,
            !.parentType = tsd.intrinsics.parentType,
            !.accountId = tsd.intrinsics.accountId,
            !.appId = tsd.intrinsics.appId,
            !.transactionId = tsd.intrinsics.transactionId,
            !.sampled = tsd.intrinsics.sampled,
            !.priority = tsd.intrinsics.priority,
            !.transportDuration = TransportDuration(now, tsd.intrinsics.timestamp)]
    ELSE data,
    KeptTraceState(tsd),
    Str(join(Array([i \in 1..Len(tsd.vendors) |-> tsd.vendors[i].s]), ",")),
    KeptParentId(tsd),
    RecordedForEntry(tsd),
    tsd)

\* The result once the traceparent was accepted.
AcceptedParent(parsedParent) ==
  [traceContextData EXCEPT
     !.acceptedTraceparent = TRUE,
     !.traceId = parsedParent.traceId,
     !.parentSpanId = parsedParent.parentId]

AcceptParsedState(accepted, tsd, now) ==
  IF ~Truthy(tsd.traceStateValid) THEN Return(accepted, <<>>, tsd)
  ELSE AcceptTraceState(accepted, tsd, now)

AcceptParsedParent(parsedParent, tracestate, now) ==
  IF Threw(parsedParent) THEN Return(parsedParent, <<>>, Undefined)
  ELSE IF ~parsedParent.entryValid
  THEN Return(traceContextData, <<PARSE_EXCEPTION>>, Undefined)
  ELSE IF ~Truthy(tracestate) THEN Return(AcceptedParent(parsedParent), <<>>, Undefined)
  ELSE AcceptParsedState(AcceptedParent(parsedParent),
                         _validateAndParseTraceStateHeader(tracestate.s), now)

acceptTraceContextPayload(traceparent, tracestate, now) ==
  IF NoTraceparent(traceparent) THEN Return(traceContextData, <<>>, Undefined)
  ELSE AcceptParsedParent(_validateAndParseTraceParentHeader(traceparent), tracestate, now)

----------------------------------------------------------------------------
(* Encode *)

\* Object.keys(this.flags).reduce(...).toString(16).padStart(2, '0')
createFlagsHex ==
  LET flagsNum == IF Truthy(transaction.sampled) THEN FLAGS_sampled ELSE 0
  IN padStart(<<HexDigits[flagsNum + 1]>>, 2, "0")

\* The traceparent getter; segment is tracer.getSegment() (its id, or null),
\* made the id hashes.makeId() would return.
traceparent(segment, made) ==
  LET traceId == padStart(transaction.traceId, TRACEID_LENGTH, "0")
      parentId == IF Truthy(segment) THEN segment.s ELSE made
  IN W3C_TRACEPARENT_VERSION \o <<"-">> \o traceId \o <<"-">>
     \o padStart(parentId, PARENTID_LENGTH, "0") \o <<"-">> \o createFlagsHex

\* The nine positions of the New Relic entry, in order.
NrTraceStateFields(spanId, transactionId, sampled, priority, timestamp) ==
  <<IntToStr(NR_TRACESTATE_VERSION), IntToStr(findIndex(PARENT_TYPES, <<"A", "p", "p">>)),
    Chars(config.account_id), Chars(config.primary_application_id),
    spanId, transactionId, sampled, priority, timestamp>>

\* The tracestate getter; now is Date.now().
tracestate(segment, now) ==
  LET spanId == IF config.span_events_enabled /\ Truthy(segment) THEN segment.s ELSE <<>>
      transactionId == IF config.transaction_events_enabled THEN transaction.id ELSE <<>>
      sampled == IF Truthy(transaction.sampled) THEN <<"1">> ELSE <<"0">>
      priority == IF Truthy(transaction.priority)
                  THEN toFixed(transaction.priority, 6) ELSE <<>>
      nrTraceState == TrustedVendor.s \o <<"=">>
                      \o join(NrTraceStateFields(spanId, transactionId, sampled,
                                                 priority, IntToStr(now)), "-")
  IN nrTraceState \o (IF Truthy(traceStateRaw) THEN <<",">> \o traceStateRaw.s ELSE <<>>)

createTraceContextPayload(segment, made, now) ==
  [traceparent |-> Str(traceparent(segment, made)),
   tracestate |-> Str(tracestate(segment, now))]

----------------------------------------------------------------------------
(* Bounds and inputs *)

\* Calls made on one instance in the lifecycle specification.
MaxCalls == 2
\* Calls made on one instance in the round-trip specification.
MaxRoundTripCalls == 3

\* Date.now() at a call, in milliseconds.
Now == {2500}

Dashed(fields) == Str(join(fields, "-"))
Listed(members) == Str(join(members, ","))

TraceIdA == Rep("0", 29) \o <<"4", "b", "f">>
ParentIdA == Rep("0", 13) \o <<"7", "a", "d">>

ValidParent == Dashed(<<<<"0", "0">>, TraceIdA, ParentIdA, <<"0", "1">>>>)
FutureParent == Dashed(<<<<"0", "1">>, TraceIdA, ParentIdA, <<"0", "0">>, <<"x">>>>)
ZeroTraceIdParent == Dashed(<<<<"0", "0">>, Rep("0", 32), ParentIdA, <<"0", "1">>>>)
VersionOnlyParent == Str(<<"0", "1">>)

\* The traceparent header values of the lifecycle specification; undefined is
\* a request without the header.
TraceparentInputs ==
  {Undefined, Str(<<>>), ValidParent, FutureParent, ZeroTraceIdParent, VersionOnlyParent}

Member(key, value) == key \o <<"=">> \o value
NrKey == <<"x", "y", "z", "@", "n", "r">>

EntryApp == join(<<<<"0">>, <<"0">>, <<"3", "3">>, <<"2", "8">>, <<"7", "d">>, <<"e", "8">>,
                   <<"1">>, <<"1", ".", "5">>, <<"1", "0", "0", "0">>>>, "-")
EntryBrowser == join(<<<<"0">>, <<"1">>, <<"3", "3">>, <<"2", "8">>, <<>>, <<>>,
                       <<>>, <<>>, <<"5", "0", "0">>>>, "-")
EntryBadTimestamp == join(<<<<"0">>, <<"0">>, <<"3", "3">>, <<"2", "8">>, <<"7", "d">>,
                            <<"e", "8">>, <<"1">>, <<"1", ".", "5">>, <<"a", "b", "c">>>>, "-")

Other1 == Member(<<"o", "t", "h", "e", "r">>, <<"1">>)
Another2 == Member(<<"a", "n", "o", "t", "h", "e", "r">>, <<"2">>)
NoEquals == <<"b", "a", "d">>
TwoEquals == <<"a", "=", "b", "=", "c">>

\* The tracestate header values of the lifecycle specification.
TracestateInputs ==
  {Undefined, Str(<<>>),
   Listed(<<Other1>>),
   Listed(<<NoEquals>>),
   Listed(<<Member(NrKey, EntryApp)>>),
   Listed(<<Other1, Member(NrKey, EntryApp), Another2>>),
   Listed(<<Member(NrKey, EntryBadTimestamp), Other1>>),
   Listed(<<Member(NrKey, EntryApp), TwoEquals>>),
   Listed(<<Member(NrKey, EntryBrowser), Member(NrKey, EntryApp)>>)}

\* tracer.getSegment(): the id of the segment in context, or null.
Segments == {Null, Str(<<"7", "d", "3", "e">>)}
\* hashes.makeId(): a random id of 16 hex digits.
MadeIds == {<<"9", "c">> \o Rep("5", 14)}

Configs ==
  [trusted_account_key : {Str(<<"x", "y", "z">>)},
   account_id : {Str(<<"3", "3">>)},
   primary_application_id : {Str(<<"2", "8">>)},
   span_events_enabled : BOOLEAN,
   transaction_events_enabled : BOOLEAN]

Transactions ==
  [id : {<<"e", "8", "b", "9">>},
   traceId : {<<"4", "b", "f">>, <<"c">> \o Rep("1", 31)},
   sampled : {Bool(TRUE), Bool(FALSE), Null},
   priority : {Null, Num(0), Dec(15, 1), Dec(1123456, 6), Dec(11234567, 7), Dec(1, 7),
               Dec(10000015, 7)}]

----------------------------------------------------------------------------
(* The instance and the calls made on it *)

\* agent.recordSupportability(name), for each name in turn.
RECURSIVE recordSupportability(_, _)
recordSupportability(metrics, names) ==
  IF names = <<>> THEN metrics
  ELSE recordSupportability([metrics EXCEPT ![Head(names)] = @ + 1], Tail(names))

\* The state after the constructor: the three slots are null.
Constructed ==
  /\ tracingVendors = Null
  /\ trustedParentId = Null
  /\ traceStateRaw = Null
  /\ supportability = [m \in MetricNames |-> 0]
  /\ ret = Undefined
  /\ parsedState = Undefined
  /\ outbound = Undefined
  /\ calls = 0

Init ==
  /\ transaction = [id |-> <<"e", "8", "b", "9">>, traceId |-> <<"4", "b", "f">>,
                    sampled |-> Bool(TRUE), priority |-> Dec(15, 1)]
  /\ config \in {c \in Configs : c.span_events_enabled /\ c.transaction_events_enabled}
  /\ call = [op |-> "constructor"]
  /\ Constructed

\* One call of acceptTraceContextPayload with its outcome o applied.
Apply(o, c) ==
  /\ ret' = o.ret
  /\ traceStateRaw' = o.traceStateRaw
  /\ tracingVendors' = o.tracingVendors
  /\ trustedParentId' = o.trustedParentId
  /\ supportability' = recordSupportability(supportability, o.recorded)
  /\ parsedState' = o.parsedState
  /\ call' = c
  /\ calls' = calls + 1
  /\ UNCHANGED <<transaction, config, outbound>>

AcceptCall(tp, ts, now, wire) ==
  [op |-> "acceptTraceContextPayload", traceparent |-> tp, tracestate |-> ts,
   now |-> now, wire |-> wire]

\* acceptTraceContextPayload on the headers of an inbound request.
Accept(tp, ts, now, max) ==
  /\ calls < max
  /\ Apply(acceptTraceContextPayload(tp, ts, now), AcceptCall(tp, ts, now, "inbound"))

\* acceptTraceContextPayload on the headers the encoder produced last.
AcceptOutbound(now, max) ==
  /\ calls < max
  /\ outbound # Undefined
  /\ Apply(acceptTraceContextPayload(outbound.traceparent, outbound.tracestate, now),
           AcceptCall(outbound.traceparent, outbound.tracestate, now, "outbound"))

\* Variant: the encoder consumes the stored pass-through.
Create_Consuming(segment, made, now, max) ==
  /\ calls < max
  /\ ret' = createTraceContextPayload(segment, made, now)
  /\ outbound' = ret'
  /\ supportability' = recordSupportability(supportability, <<CREATE_SUCCESS>>)
  /\ call' = [op |-> "createTraceContextPayload", segment |-> segment, now |-> now]
  /\ calls' = calls + 1
  /\ parsedState' = Undefined
  /\ traceStateRaw' = Null
  /\ UNCHANGED <<transaction, config, tracingVendors, trustedParentId>>
\* createTraceContextPayload(): the headers are returned and kept as outbound.
Create(segment, made, now, max) ==
  /\ calls < max
  /\ ret' = createTraceContextPayload(segment, made, now)
  /\ outbound' = ret'
  /\ supportability' = recordSupportability(supportability, <<CREATE_SUCCESS>>)
  /\ call' = [op |-> "createTraceContextPayload", segment |-> segment, now |-> now]
  /\ calls' = calls + 1
  /\ parsedState' = Undefined
  /\ UNCHANGED <<transaction, config, tracingVendors, trustedParentId, traceStateRaw>>

\* addTraceContextHeaders(headers): createTraceContextPayload() is called and
\* its two headers are assigned into the argument, which the caller sends
\* (outbound); the method returns nothing.
AddTraceContextHeaders(segment, made, now, max) ==
  /\ calls < max
  /\ ret' = Undefined
  /\ outbound' = createTraceContextPayload(segment, made, now)
  /\ supportability' = recordSupportability(supportability, <<CREATE_SUCCESS>>)
  /\ call' = [op |-> "addTraceContextHeaders", segment |-> segment, now |-> now]
  /\ calls' = calls + 1
  /\ parsedState' = Undefined
  /\ UNCHANGED <<transaction, config, tracingVendors, trustedParentId, traceStateRaw>>

GetTraceparent(segment, made, max) ==
  /\ calls < max
  /\ ret' = Str(traceparent(segment, made))
  /\ call' = [op |-> "traceparent", segment |-> segment]
  /\ calls' = calls + 1
  /\ parsedState' = Undefined
  /\ UNCHANGED <<transaction, config, tracingVendors, trustedParentId, traceStateRaw,
                 supportability, outbound>>

GetTracestate(segment, now, max) ==
  /\ calls < max
  /\ ret' = Str(tracestate(segment, now))
  /\ call' = [op |-> "tracestate", segment |-> segment, now |-> now]
  /\ calls' = calls + 1
  /\ parsedState' = Undefined
  /\ UNCHANGED <<transaction, config, tracingVendors, trustedParentId, traceStateRaw,
                 supportability, outbound>>

Next ==
  \/ \E tp \in TraceparentInputs, ts \in TracestateInputs, now \in Now :
       Accept(tp, ts, now, MaxCalls)
  \/ \E now \in Now : AcceptOutbound(now, MaxCalls)
  \/ \E segment \in Segments, made \in MadeIds, now \in Now :
       Create(segment, made, now, MaxCalls)
  \/ \E segment \in Segments, made \in MadeIds, now \in Now :
       AddTraceContextHeaders(segment, made, now, MaxCalls)
  \/ \E segment \in Segments, made \in MadeIds : GetTraceparent(segment, made, MaxCalls)
  \/ \E segment \in Segments, now \in Now : GetTracestate(segment, now, MaxCalls)

Spec == Init /\ [][Next]_vars

----------------------------------------------------------------------------
(* Specifications of the decode path as a function of its inputs: the call   *)
(* is drawn first and acceptTraceContextPayload is then applied to it.       *)

Pending(tp, ts, now) ==
  [op |-> "pending", traceparent |-> tp, tracestate |-> ts, now |-> now]

InitWith(pendings) ==
  /\ transaction = [id |-> <<"e", "8", "b", "9">>, traceId |-> <<"4", "b", "f">>,
                    sampled |-> Bool(TRUE), priority |-> Dec(15, 1)]
  /\ config \in {c \in Configs : c.span_events_enabled /\ c.transaction_events_enabled}
  /\ call \in pendings
  /\ Constructed

AcceptPending ==
  /\ call.op = "pending"
  /\ Apply(acceptTraceContextPayload(call.traceparent, call.tracestate, call.now),
           AcceptCall(call.traceparent, call.tracestate, call.now, "inbound"))

\* traceparent values: every combination of the field candidates, cut to
\* one to five dash-separated fields.
VersionFields == {<<"0", "0">>, <<"0", "1">>, <<"f", "f">>, <<"0", "A">>, <<"0">>}
TraceIdFields ==
  {TraceIdA, Rep("0", 32), Rep("a", 31), Rep("a", 33), Rep("a", 31) \o <<"F">>}
ParentIdFields == {ParentIdA, Rep("0", 16), Rep("b", 15)}
FlagsFields == {<<"0", "1">>, <<"f", "e">>, <<"0", "g">>, <<"1">>}

TraceparentProduct ==
  {Undefined, Str(<<>>)} \cup
  {Dashed(SubSeq(<<v, t, p, f, <<"x">>>>, 1, n)) :
     v \in VersionFields, t \in TraceIdFields, p \in ParentIdFields,
     f \in FlagsFields, n \in 1..5}

InitParent ==
  InitWith({Pending(tp, Listed(<<Member(NrKey, EntryApp)>>), 2500) :
              tp \in TraceparentProduct})

SpecParent == InitParent /\ [][AcceptPending]_vars

\* tracestate values: every list of one to three members of the pool.
NrOtherKey == <<"x", "y", "@", "n", "r">>
MemberPool ==
  {Other1, Another2, NoEquals, Member(NrKey, EntryApp), Member(NrKey, EntryBrowser),
   Member(NrKey, EntryBadTimestamp), Member(NrOtherKey, EntryApp)}

TracestateLists ==
  {Listed(<<a>>) : a \in MemberPool}
  \cup {Listed(<<a, b>>) : a \in MemberPool, b \in MemberPool}
  \cup {Listed(<<a, b, c>>) : a \in MemberPool, b \in MemberPool, c \in MemberPool}

InitState == InitWith({Pending(ValidParent, ts, 2500) : ts \in TracestateLists})

SpecState == InitState /\ [][AcceptPending]_vars

\* New Relic entries: every combination of the candidates of the nine
\* positions, and entries with fewer or more positions.
EntryFields ==
  {<<v, pt, acc, app, span, txn, smp, prio, ts>> :
     v \in {<<"0">>, <<>>, <<"x">>},
     pt \in {<<"0">>, <<"2">>, <<"3">>, <<>>, <<"x">>},
     acc \in {<<"3", "3">>, <<>>},
     app \in {<<"2", "8">>, <<>>},
     span \in {<<"7", "d">>, <<>>},
     txn \in {<<"e", "8">>, <<>>},
     smp \in {<<"1">>, <<"0">>, <<>>, <<"x">>},
     prio \in {<<"1", ".", "5">>, <<>>, <<"x">>},
     ts \in {<<"1", "0", "0", "0">>, <<>>, <<"a", "b", "c">>}}

AppFields == <<<<"0">>, <<"0">>, <<"3", "3">>, <<"2", "8">>, <<"7", "d">>, <<"e", "8">>,
               <<"1">>, <<"1", ".", "5">>, <<"1", "0", "0", "0">>>>

EntryValues ==
  {join(f, "-") : f \in EntryFields}
  \cup {join(SubSeq(AppFields, 1, n), "-") : n \in 1..8}
  \cup {join(AppFields \o <<<<"9">>>>, "-")}

InitIntrinsics ==
  InitWith({Pending(ValidParent, Listed(<<Member(NrKey, e)>>), 2500) : e \in EntryValues})

SpecIntrinsics == InitIntrinsics /\ [][AcceptPending]_vars

\* Round trip: any unit of work and configuration; an inbound request may
\* leave a pass-through tracestate before the encoder runs.
InitRoundTrip ==
  /\ transaction \in Transactions
  /\ config \in Configs
  /\ call = [op |-> "constructor"]
  /\ Constructed

NextRoundTrip ==
  \/ Accept(ValidParent, Listed(<<Other1>>), 1000, MaxRoundTripCalls)
  \/ \E segment \in Segments, made \in MadeIds :
       Create(segment, made, 1000, MaxRoundTripCalls)
  \/ \E segment \in Segments, made \in MadeIds :
       AddTraceContextHeaders(segment, made, 1000, MaxRoundTripCalls)
  \/ AcceptOutbound(2500, MaxRoundTripCalls)

SpecRoundTrip == InitRoundTrip /\ [][NextRoundTrip]_vars

----------------------------------------------------------------------------
(* Properties. The rules below are written from the format, apart from the   *)
(* operators of the decode path, so that a result can be compared with them. *)

IsAccept == call.op = "acceptTraceContextPayload"
Returned == IsAccept /\ ~Threw(ret)

Slots == <<traceStateRaw, tracingVendors, trustedParentId>>

LowerHex(s, n) == Len(s) = n /\ \A i \in 1..n : s[i] \in LowerHexChars
NotAllZero(s) == \E i \in 1..Len(s) : s[i] # "0"

\* The traceparent rule: version, trace id, parent id and flags are well
\* formed, and version 00 has exactly four fields.
WellFormedFields(f) ==
  /\ Len(f) >= 4
  /\ LowerHex(f[1], 2) /\ f[1] # <<"f", "f">>
  /\ LowerHex(f[2], 32) /\ NotAllZero(f[2])
  /\ LowerHex(f[3], 16) /\ NotAllZero(f[3])
  /\ LowerHex(f[4], 2)
  /\ (f[1] = <<"0", "0">> => Len(f) = 4)

WellFormedParent(tp) == tp.t = "str" /\ tp.s # <<>> /\ WellFormedFields(split(tp.s, "-"))

\* The result of a call that accepts the traceparent and nothing else.
ParentOnlyOf(f) ==
  [traceContextData EXCEPT !.acceptedTraceparent = TRUE,
                           !.traceId = Str(f[2]), !.parentSpanId = Str(f[3])]
ParentOnly(tp) == ParentOnlyOf(split(tp.s, "-"))

\* A tracestate with a member that does not hold exactly one '='.
EqualsSigns(m) == Cardinality({i \in 1..Len(m) : m[i] = "="})
MalformedMembers(m) == \E i \in 1..Len(m) : EqualsSigns(m[i]) # 1
MalformedList(ts) == ts.t = "str" /\ MalformedMembers(split(ts.s, ","))
WellFormedList(ts) == ts.t = "str" /\ ~MalformedMembers(split(ts.s, ","))

\* The first member whose key is the trusted vendor key (0: none), and the
\* list without that member.
KeyOf(m) == SubSeq(m, 1, IndexFrom(m, "=", 1) - 1)
TrustedIn(m) == {i \in 1..Len(m) : KeyOf(m[i]) = TrustedVendor.s}
WithoutMember(m, k) == join([i \in 1..(Len(m) - 1) |-> IF i < k THEN m[i] ELSE m[i + 1]], ",")
WithoutTrustedOf(s, m) == IF TrustedIn(m) = {} THEN s ELSE WithoutMember(m, Least(TrustedIn(m)))
WithoutTrusted(s) == WithoutTrustedOf(s, split(s, ","))
HasTrusted(ts) == WellFormedList(ts) /\ TrustedIn(split(ts.s, ",")) # {}

\* What a call added to a counter (read in a step).
Delta(m) == supportability'[m] - supportability[m]

\* C1 (as stated): whenever the traceparent is absent or fails validation,
\* the call returns the all-null result with both acceptance flags false,
\* parses no tracestate, and leaves the three slots as they were.
C1_RejectedParentReturnsDefault ==
  [][(call'.op = "acceptTraceContextPayload" /\ ~WellFormedParent(call'.traceparent))
       => (ret' = traceContextData /\ parsedState' = Undefined /\ Slots' = Slots)]_vars

\* C2 (as stated): acceptTraceContextPayload never raises; every call returns
\* a result.
C2_NeverRaises == IsAccept => ~Threw(ret)

\* C4: with a well-formed traceparent, a tracestate with a member that does
\* not split on '=' into exactly two parts is rejected whole: the result is
\* the traceparent-only result, and the three slots are as before the call.
C4_MalformedListRejectedWhole ==
  [][(/\ call'.op = "acceptTraceContextPayload"
      /\ WellFormedParent(call'.traceparent)
      /\ MalformedList(call'.tracestate))
       => (ret' = ParentOnly(call'.traceparent) /\ Slots' = Slots)]_vars

\* A malformed list that holds a valid trusted entry was rejected, and the
\* pass-through of the call before it is still stored.
C4_Witness ==
  /\ Returned
  /\ call.traceparent = ValidParent
  /\ call.tracestate = Listed(<<Member(NrKey, EntryApp), TwoEquals>>)
  /\ ret = ParentOnly(call.traceparent)
  /\ traceStateRaw = Listed(<<Other1>>)

\* C6: when the trusted entry is found and fails validation, the result is
\* the traceparent-only result, the trusted parent id is as before, and the
\* stored pass-through is the inbound list without the trusted entry.
C6_InvalidEntryStripped ==
  [][(/\ call'.op = "acceptTraceContextPayload"
      /\ WellFormedParent(call'.traceparent)
      /\ HasTrusted(call'.tracestate)
      /\ parsedState' # Undefined
      /\ parsedState'.entryValid = Bool(FALSE))
       => (/\ ret' = ParentOnly(call'.traceparent)
           /\ trustedParentId' = trustedParentId
           /\ traceStateRaw' = Str(WithoutTrusted(call'.tracestate.s)))]_vars

\* An entry with a non-numeric timestamp was stripped after an earlier call
\* had set the trusted parent id.
C6_Witness ==
  /\ Returned
  /\ call.tracestate = Listed(<<Member(NrKey, EntryBadTimestamp), Other1>>)
  /\ parsedState # Undefined
  /\ parsedState.entryValid = Bool(FALSE)
  /\ ~ret.acceptedTracestate
  /\ traceStateRaw = Listed(<<Other1>>)
  /\ trustedParentId = Str(<<"7", "d">>)

\* C8 (as stated, but for the absent traceparent, which the orchestrator
\* returns without a counter): every call increments Parse/Exception once
\* exactly when its traceparent is present and malformed, InvalidNrEntry once
\* exactly when the trusted entry is found invalid, Accept/Success once
\* exactly when it accepts the tracestate, and never more than one of them.
C8_OneCounterPerOutcome ==
  [][call'.op = "acceptTraceContextPayload" =>
       /\ Delta(PARSE_EXCEPTION) =
            IF Truthy(call'.traceparent) /\ ~WellFormedParent(call'.traceparent)
            THEN 1 ELSE 0
       /\ Delta(INVALID_NR_ENTRY) =
            IF /\ WellFormedParent(call'.traceparent)
               /\ HasTrusted(call'.tracestate) /\ ~ret'.acceptedTracestate THEN 1 ELSE 0
       /\ Delta(ACCEPT_SUCCESS) =
            IF WellFormedParent(call'.traceparent) /\ ret'.acceptedTracestate
            THEN 1 ELSE 0
       /\ Delta(CREATE_SUCCESS) = 0
       /\ Delta(PARSE_EXCEPTION) + Delta(INVALID_NR_ENTRY) + Delta(ACCEPT_SUCCESS) <= 1]_vars

\* C9 (as stated): the three slots change only in a decode call that returns
\* acceptedTracestate = true.
C9_SlotsChangeOnlyOnAcceptedState ==
  [][Slots' # Slots =>
       (call'.op = "acceptTraceContextPayload" /\ ~Threw(ret') /\ ret'.acceptedTracestate)]_vars

\* C9 (amended): the stored pass-through and the vendor key list change only
\* in a decode call that accepts the traceparent and whose tracestate list is
\* well formed, and every such call stores the list without the trusted
\* entry; the trusted parent id changes only in a decode call that accepts
\* the tracestate; encode calls change no slot.
C9_SlotsChangeOnlyOnParsedList ==
  [][/\ <<traceStateRaw, tracingVendors>>' # <<traceStateRaw, tracingVendors>> =>
          /\ call'.op = "acceptTraceContextPayload"
          /\ WellFormedParent(call'.traceparent)
          /\ WellFormedList(call'.tracestate)
     /\ (/\ call'.op = "acceptTraceContextPayload"
         /\ WellFormedParent(call'.traceparent)
         /\ Truthy(call'.tracestate)
         /\ WellFormedList(call'.tracestate)) =>
          traceStateRaw' = Str(WithoutTrusted(call'.tracestate.s))
     /\ trustedParentId' # trustedParentId =>
          (call'.op = "acceptTraceContextPayload" /\ ~Threw(ret') /\ ret'.acceptedTracestate)]_vars

\* The first call stored a pass-through and a vendor key without accepting
\* the tracestate, and an encode call after it left them in place.
C9_Witness ==
  /\ call.op = "createTraceContextPayload"
  /\ calls = 2
  /\ traceStateRaw = Listed(<<Other1>>)
  /\ tracingVendors = Str(<<"o", "t", "h", "e", "r">>)
  /\ trustedParentId = Null
  /\ supportability[ACCEPT_SUCCESS] = 0

\* C3 (as stated): the call returns acceptedTraceparent = true exactly when
\* the traceparent is well formed, and returns acceptedTraceparent = false in
\* every other case, a traceparent with missing fields included.
C3_AcceptedIffWellFormed ==
  IsAccept =>
    /\ ~Threw(ret)
    /\ ret.acceptedTraceparent <=> WellFormedParent(call.traceparent)

\* C5: after a decode of a well-formed traceparent with a well-formed list,
\* the stored pass-through is the list without the first member carrying the
\* trusted key, the other members verbatim and in order, and the inbound
\* tracestate itself when no member carries the trusted key.
C5_PassThroughWithoutTrustedEntry ==
  (Returned /\ WellFormedParent(call.traceparent) /\ WellFormedList(call.tracestate))
    => traceStateRaw = Str(WithoutTrusted(call.tracestate.s))

\* The trusted entry stood between two other members.
C5_Witness ==
  /\ Returned
  /\ call.tracestate = Listed(<<Other1, Member(NrKey, EntryApp), Another2>>)
  /\ traceStateRaw = Listed(<<Other1, Another2>>)

\* v is a number of at most six fractional digits within half a unit of the
\* sixth digit of x, compared at the scale of x.
WithinHalfUnit(v, x, scale) ==
  /\ 2 * (v.n * Pow10(scale - v.k) - x.n * Pow10(scale - x.k)) <= Pow10(scale - 6)
  /\ 2 * (x.n * Pow10(scale - x.k) - v.n * Pow10(scale - v.k)) <= Pow10(scale - 6)

Rounded6(v, x) ==
  /\ v.t = "num"
  /\ v.k <= 6
  /\ WithinHalfUnit(v, x, IF x.k > 6 THEN x.k ELSE 6)

IsOutboundAccept == IsAccept /\ call.wire = "outbound"

\* C7 (as stated, the inputs read as the encoder renders them by its rules:
\* the transaction id empty when transaction events are off, an unset sampled
\* flag as not sampled, a priority that is present with six decimals):
\* decoding the headers the encoder produced accepts both, with the padded
\* trace id, parentType App, and accountId, appId, transactionId, sampled and
\* priority equal to those inputs; a priority that is present, zero
\* included, comes back as a number.
C7_RoundTripEqualsInputs ==
  IsOutboundAccept =>
    /\ ~Threw(ret)
    /\ ret.acceptedTraceparent /\ ret.acceptedTracestate
    /\ ret.traceId = Str(Rep("0", TRACEID_LENGTH - Len(transaction.traceId))
                         \o transaction.traceId)
    /\ ret.parentType = Str(<<"A", "p", "p">>)
    /\ ret.accountId = config.account_id
    /\ ret.appId = config.primary_application_id
    /\ ret.transactionId =
         IF config.transaction_events_enabled THEN Str(transaction.id) ELSE Null
    /\ ret.sampled = Bool(transaction.sampled = Bool(TRUE))
    /\ IF transaction.priority.t = "num"
       THEN Rounded6(ret.priority, transaction.priority)
       ELSE ret.priority = Null

\* The per-field table read from the text of the entry: position i of the
\* dash-separated value, null when it is empty or missing.
Field(f, i) == IF i > Len(f) \/ f[i] = <<>> THEN Null ELSE Str(f[i])
IsNumber(v) == v.t \in {"num", "inf"}
ResolvesToParentType(v) == v.t = "num" /\ v.k = 0 /\ v.n \in 0..2

ValidEntry(f) ==
  /\ IsNumber(parseInt(Field(f, 1), 0))
  /\ ResolvesToParentType(parseInt(Field(f, 2), 0))
  /\ Field(f, 3) # Null
  /\ Field(f, 4) # Null
  /\ (Field(f, 7) = Null \/ IsNumber(parseInt(Field(f, 7), 10)))
  /\ (Field(f, 8) = Null \/ IsNumber(parseFloat(Field(f, 8))))
  /\ IsNumber(parseInt(Field(f, 9), 0))

NonZero(v) == v.t = "num" /\ v.n # 0

EntryTable(f) ==
  /\ ret.acceptedTracestate <=> ValidEntry(f)
  /\ parsedState.entryValid = Bool(ValidEntry(f))
  /\ ValidEntry(f) =>
       /\ ret.sampled = Bool(Field(f, 7) # Null /\ NonZero(parseInt(Field(f, 7), 10)))
       /\ ret.parentType = Str(PARENT_TYPES[parseInt(Field(f, 2), 0).n + 1])

\* C10: the vendor entry is valid exactly when version is a number,
\* parentType resolves to App, Browser or Mobile, accountId and appId are not
\* null, sampled and priority are absent or numbers and timestamp is a
\* number, whatever spanId and transactionId are; a valid entry returns
\* sampled as a boolean (true for non-zero) and parentType as its label.
C10_EntryValidByTable ==
  (Returned /\ parsedState # Undefined /\ parsedState.entryFound)
    => EntryTable(split(split(call.tracestate.s, "=")[2], "-"))

\* A valid entry without span id and transaction id, of parent type Mobile
\* and sampled 0.
C10_Witness ==
  /\ Returned
  /\ ret.acceptedTracestate
  /\ ret.parentType = Str(<<"M", "o", "b", "i", "l", "e">>)
  /\ ret.sampled = Bool(FALSE)
  /\ ret.transactionId = Null
  /\ trustedParentId = Null
  /\ ret.priority = Null


\* The rows of the per-field table an entry fails, read from its text after
\* coercion, as positions in table order (version, parentType, accountId,
\* appId, sampled, priority, timestamp).
FailingRows(f) ==
  {i \in 1..Len(InvalidationKeys) :
     CASE i = 1 -> ~IsNumber(parseInt(Field(f, 1), 0))
       [] i = 2 -> IsNullish(parseInt(Field(f, 2), 0))
       [] i = 3 -> Field(f, 3) = Null
       [] i = 4 -> Field(f, 4) = Null
       [] i = 5 -> Field(f, 7) # Null /\ ~IsNumber(parseInt(Field(f, 7), 10))
       [] i = 6 -> Field(f, 8) # Null /\ ~IsNumber(parseFloat(Field(f, 8)))
       [] i = 7 -> ~IsNumber(parseInt(Field(f, 9), 0))}

\* The field the reason names is the last failing row; an entry that fails
\* no row is invalid by its parentType, which the reason then names.
ReasonNames(reason, rows) ==
  /\ reason.t = "str"
  /\ "failed" \in DOMAIN reason
  /\ reason.failed = IF rows = {} THEN "parentType" ELSE InvalidationKeys[Greatest(rows)]

\* C11 (as stated): whenever the trusted entry is found and is invalid, the
\* parse result carries an entryInvalidReason naming a failing field, the
\* last one in table order when several fail.
C11_InvalidEntryCarriesReason ==
  (/\ Returned /\ parsedState # Undefined
   /\ parsedState.entryFound /\ parsedState.entryValid = Bool(FALSE))
    => ReasonNames(parsedState.entryInvalidReason,
                   FailingRows(split(split(call.tracestate.s, "=")[2], "-")))


\* The positions of the members of a stored or emitted list that carry the
\* trusted vendor key.
TrustedMembers(v) == IF v.t = "str" THEN TrustedIn(split(v.s, ",")) ELSE {}

\* C12 (as stated): after any sequence of decode calls the stored
\* pass-through has no member with the trusted vendor key, and a tracestate
\* the encoder emits has exactly one member with that key, the first.
C12_OneTrustedMemberFirst ==
  /\ TrustedMembers(traceStateRaw) = {}
  /\ call.op = "tracestate" => TrustedMembers(ret) = {1}

====
